---- MODULE Spec2Model ----
(***************************************************************************)
(* A model of source_bsp: the lump directory reader (src/src/lib.rs) and   *)
(* the lump decoder parse_lump_data with its byte cursor LumpReader        *)
(* (src/src/lumps.rs).                                                     *)
(*                                                                         *)
(* Bytes are naturals in 0..255.  TLC's integers are 32-bit signed, so a   *)
(* u32 (and the bit pattern of an f32) is kept as the pair <<hi, lo>> of   *)
(* its 16-bit halves, value = hi * 65536 + lo; i32, i16, u16, i8, u8 are   *)
(* plain integers.  A Rust panic (an out-of-range slice index, an unwrap   *)
(* of an Err) unwinds out of the running function: pc = "panicked".        *)
(***************************************************************************)
EXTENDS Integers, Sequences, FiniteSets, TLC

VARIABLES
    full_data,  \* BspParser.data / parse_lump_data's full_data: the file bytes
    lumps,      \* the Vec<Lump> read_lump_info returned (<<>> before it ran)
    i,          \* parse_lump_data's loop index over lumps, 0-based
    parsed,     \* parse_lump_data's ParsedLumps
    data,       \* the LumpReader `data` of the current / last loop iteration
    pc,         \* "read_lump_info", "parse_lump_data", "returned", "panicked", "reading"
    ret         \* what the last LumpReader read returned (cursor specification)

vars == <<full_data, lumps, i, parsed, data, pc, ret>>

----------------------------------------------------------------------------
(* Sequence helpers *)

\* the sequence of n copies of x
Repeat(x, n) == [j \in 1..n |-> x]

\* the least element of a non-empty set of integers
SetMin(S) == CHOOSE x \in S : \A y \in S : x <= y

\* s without its first n elements (Rust's &s[n..] for n <= len)
DropFirst(s, n) == SubSeq(s, n + 1, Len(s))

----------------------------------------------------------------------------
(* from_le_bytes: the little-endian value of 1, 2 or 4 bytes *)

\* u8::from_le_bytes
u8_from_le_bytes(b) == b[1]

\* i8::from_le_bytes: two's complement
i8_from_le_bytes(b) == IF b[1] >= 128 THEN b[1] - 256 ELSE b[1]

\* a faulty u16 conversion: the two bytes taken big-endian
u16_from_be_bytes(b) == b[1] * 256 + b[2]

\* u16::from_le_bytes
u16_from_le_bytes(b) == b[1] + 256 * b[2]

\* i16::from_le_bytes: two's complement
i16_from_le_bytes(b) ==
    LET u == u16_from_le_bytes(b) IN IF u >= 32768 THEN u - 65536 ELSE u

\* u32::from_le_bytes, as <<high half, low half>>
u32_from_le_bytes(b) == << u16_from_le_bytes(<<b[3], b[4]>>), u16_from_le_bytes(<<b[1], b[2]>>) >>

\* f32::from_le_bytes: the IEEE-754 bit pattern, kept as the u32 it is read from
f32_from_le_bytes(b) == u32_from_le_bytes(b)

\* i32::from_le_bytes: two's complement
i32_from_le_bytes(b) ==
    LET hi == i16_from_le_bytes(<<b[3], b[4]>>)
        lo == u16_from_le_bytes(<<b[1], b[2]>>)
    IN  hi * 65536 + lo

\* (v as u64).to_le_bytes() for a u32 v
u64_to_le_bytes(v) ==
    << v[2] % 256, v[2] \div 256, v[1] % 256, v[1] \div 256, 0, 0, 0, 0 >>

\* `v as usize` for a u32 v that fits TLC's integers (high half below 2^15)
u32_as_usize(v) == v[1] * 65536 + v[2]

----------------------------------------------------------------------------
(* LumpReader *)

\* LumpReader::new
LumpReader_new(bytes) == [position |-> 0, data |-> bytes]

get_data(r) == r.data
get_pos(r) == r.position
get_len(r) == Len(r.data)

\* self.position += w
Advance(r, w) == [r EXCEPT !.position = @ + w]

\* self.data[self.position - w..self.position] after the advance: the slice
\* index panics when its end is past the data
SliceInRange(r, w) == r.position <= Len(r.data)

\* One read of width w: position is advanced first, then the w bytes before
\* the new position are sliced (panic if out of range) and converted.
read_bytes(r, w) ==
    LET r2 == Advance(r, w)
    IN  IF SliceInRange(r2, w)
        THEN [ok |-> TRUE, reader |-> r2,
              bytes |-> SubSeq(r2.data, r2.position - w + 1, r2.position)]
        ELSE [ok |-> FALSE, reader |-> r2, bytes |-> <<>>]

Width(kind) ==
    CASE kind \in {"u8", "i8"} -> 1
      [] kind \in {"u16", "i16"} -> 2
      [] kind \in {"u32", "i32", "f32"} -> 4

Convert(kind, b) ==
    CASE kind = "u8" -> u8_from_le_bytes(b)
      [] kind = "i8" -> i8_from_le_bytes(b)
      [] kind = "u16" -> u16_from_le_bytes(b)
      [] kind = "i16" -> i16_from_le_bytes(b)
      [] kind = "u32" -> u32_from_le_bytes(b)
      [] kind = "i32" -> i32_from_le_bytes(b)
      [] kind = "f32" -> f32_from_le_bytes(b)

\* LumpReader::read_<kind>: [ok, reader, val]; ok = FALSE is the panic
Converted(kind, x) ==
    [ok |-> x.ok, reader |-> x.reader,
     val |-> IF x.ok THEN Convert(kind, x.bytes) ELSE <<>>]
read(r, kind) == Converted(kind, read_bytes(r, Width(kind)))

read_f32(r) == read(r, "f32")
read_i32(r) == read(r, "i32")
read_u32(r) == read(r, "u32")
read_u16(r) == read(r, "u16")
read_i16(r) == read(r, "i16")
read_u8(r) == read(r, "u8")
read_i8(r) == read(r, "i8")

\* The reads of a run start where the reads before them stopped: read j of
\* the run finds the cursor advanced by the widths of reads 1..j-1.
WidthsBefore(kinds, j) ==
    Cardinality({k \in 1..(j - 1) : Width(kinds[k]) = 1})
    + 2 * Cardinality({k \in 1..(j - 1) : Width(kinds[k]) = 2})
    + 4 * Cardinality({k \in 1..(j - 1) : Width(kinds[k]) = 4})
ReaderBefore(r, kinds, j) == Advance(r, WidthsBefore(kinds, j))
ReadAt(r, kinds, j) == read(ReaderBefore(r, kinds, j), kinds[j])
PanickingReads(r, kinds) == {j \in 1..Len(kinds) : ~ReadAt(r, kinds, j).ok}

\* A run of reads in source order, as in a struct literal whose fields are
\* read one after the other: [ok, reader, vals].  The first panicking read
\* ends the run and leaves the cursor where that read put it.
FieldsUpTo(r, kinds, bad) ==
    IF bad = {}
    THEN [ok |-> TRUE, reader |-> ReaderBefore(r, kinds, Len(kinds) + 1),
          vals |-> [j \in 1..Len(kinds) |-> ReadAt(r, kinds, j).val]]
    ELSE [ok |-> FALSE, reader |-> ReadAt(r, kinds, SetMin(bad)).reader,
          vals |-> <<>>]
ReadFields(r, kinds) == FieldsUpTo(r, kinds, PanickingReads(r, kinds))

----------------------------------------------------------------------------
(* The lump directory: BspParser::read_lump_info *)

\* for i in 0..64
NumLumps == 64
\* the directory starts after the 8 header bytes; an entry is 16 bytes
DirBase == 8
LumpInfoSize == 16

\* a faulty entry read: offset and length taken from each other's bytes
LumpAtSwapped(bytes, n) ==
    LET o == DirBase + n * LumpInfoSize
    IN  IF o + 16 > Len(bytes)
        THEN [ok |-> FALSE]
        ELSE [ok |-> TRUE,
              lump |-> [fileofs |-> i32_from_le_bytes(SubSeq(bytes, o + 5, o + 8)),
                        filelen |-> i32_from_le_bytes(SubSeq(bytes, o + 1, o + 4)),
                        version |-> i32_from_le_bytes(SubSeq(bytes, o + 9, o + 12)),
                        ident |-> SubSeq(bytes, o + 13, o + 16)]]

\* One Lump { fileofs, filelen, version, ident } read from the 16 bytes of
\* entry n (0-based); ok = FALSE when one of its four slices is out of range
\* (the slice index panics).
LumpAt(bytes, n) ==
    LET o == DirBase + n * LumpInfoSize
    IN  IF o + 16 > Len(bytes) \/ o + 12 > Len(bytes) \/ o + 8 > Len(bytes) \/ o + 4 > Len(bytes)
        THEN [ok |-> FALSE]
        ELSE [ok |-> TRUE,
              lump |-> [fileofs |-> i32_from_le_bytes(SubSeq(bytes, o + 1, o + 4)),
                        filelen |-> i32_from_le_bytes(SubSeq(bytes, o + 5, o + 8)),
                        version |-> i32_from_le_bytes(SubSeq(bytes, o + 9, o + 12)),
                        ident |-> SubSeq(bytes, o + 13, o + 16)]]

\* read_lump_info: the 64 entries in slot order, or a panic at the first
\* entry that does not fit the buffer
read_lump_info(bytes) ==
    IF \E n \in 0..(NumLumps - 1) : ~LumpAt(bytes, n).ok
    THEN [ok |-> FALSE, lumps |-> <<>>]
    ELSE [ok |-> TRUE, lumps |-> [n \in 1..NumLumps |-> LumpAt(bytes, n - 1).lump]]

----------------------------------------------------------------------------
(* LumpType discriminants used by parse_lump_data's match *)

Entities == 0
Plane == 1
Texdata == 2
Vertexes == 3
Visibility == 4
Nodes == 5
Texinfo == 6
Faces == 7
Lighting == 8
Occlusion == 9
Leafs == 10
Edges == 12
Surfedges == 13
Models == 14
Leaffaces == 16
Leafbrushes == 17
Brushes == 18
Brushsides == 19
Areas == 20
Areaportals == 21
Dispinfo == 27

(* The record layouts of the fixed-stride arms: the reads of each struct   *)
(* literal in source order.  A decoded record is the sequence of the       *)
(* values read, in field order.                                            *)

PlaneFields == <<"f32", "f32", "f32", "f32", "i32">>
TexDataFields == <<"f32", "f32", "f32", "i32", "i32", "i32", "i32", "i32">>
VertexFields == <<"f32", "f32", "f32">>
NodeFields ==
    <<"i32", "i32", "i32", "i16", "i16", "i16", "i16", "i16", "i16",
      "u16", "u16", "i16", "i16">>
TexInfoFields ==
    <<"f32", "f32", "f32", "f32", "f32", "f32", "f32", "f32",
      "f32", "f32", "f32", "f32", "f32", "f32", "f32", "f32", "i32", "i32">>
FaceFields ==
    <<"u16", "u8", "u8", "i32", "i16", "i16", "i16", "i16",
      "u8", "u8", "u8", "u8", "i32", "f32", "i32", "i32", "i32", "i32",
      "i32", "u16", "u16", "u32">>
LightMapSampleFields == <<"u8", "u8", "u8", "i8">>
OccluderDataFields ==
    <<"i32", "i32", "i32", "f32", "f32", "f32", "f32", "f32", "f32", "i32">>
OccluderPolyDataFields == <<"i32", "i32", "i32">>

\* the divisors of get_len() in the fixed-stride arms
PlaneStride == 20
TexDataStride == 32
VertexStride == 12
NodeStride == 32
TexInfoStride == 72
FaceStride == 56
LightMapSampleStride == 4

FixedStrideSlots == {Plane, Texdata, Vertexes, Nodes, Texinfo, Faces, Lighting}

\* the divisor, the layout and the ParsedLumps field of each fixed-stride arm
Stride(idx) ==
    CASE idx = Plane -> PlaneStride
      [] idx = Texdata -> TexDataStride
      [] idx = Vertexes -> VertexStride
      [] idx = Nodes -> NodeStride
      [] idx = Texinfo -> TexInfoStride
      [] idx = Faces -> FaceStride
      [] idx = Lighting -> LightMapSampleStride

Fields(idx) ==
    CASE idx = Plane -> PlaneFields
      [] idx = Texdata -> TexDataFields
      [] idx = Vertexes -> VertexFields
      [] idx = Nodes -> NodeFields
      [] idx = Texinfo -> TexInfoFields
      [] idx = Faces -> FaceFields
      [] idx = Lighting -> LightMapSampleFields

\* a faulty routing: the lightmap samples are pushed to the vertex list
CollectionMixed(idx) ==
    CASE idx = Entities -> "entities"
      [] idx = Plane -> "planes"
      [] idx = Texdata -> "texdata"
      [] idx = Vertexes -> "vertex_list"
      [] idx = Nodes -> "nodes"
      [] idx = Texinfo -> "texinfo"
      [] idx = Faces -> "faces"
      [] idx = Lighting -> "vertex_list"
      [] idx = Occlusion -> "occluders"

Collection(idx) ==
    CASE idx = Entities -> "entities"
      [] idx = Plane -> "planes"
      [] idx = Texdata -> "texdata"
      [] idx = Vertexes -> "vertex_list"
      [] idx = Nodes -> "nodes"
      [] idx = Texinfo -> "texinfo"
      [] idx = Faces -> "faces"
      [] idx = Lighting -> "lightmap_samples"
      [] idx = Occlusion -> "occluders"

\* let mut parsed = ParsedLumps { ... vec![] ... }
EmptyParsed ==
    [entities |-> <<>>, planes |-> <<>>, texdata |-> <<>>, vertex_list |-> <<>>,
     nodes |-> <<>>, texinfo |-> <<>>, faces |-> <<>>, lightmap_samples |-> <<>>,
     occluders |-> <<>>]

\* The passes of `for _ in 0..n` that are entered: a non-positive n is the
\* empty range, and no pass follows the one in which the data runs out.
Passes(r, kinds, n) ==
    LET stride == WidthsBefore(kinds, Len(kinds) + 1)
        room == (get_len(r) - get_pos(r)) \div stride
    IN  IF n <= 0 THEN 0 ELSE IF n <= room THEN n ELSE room + 1

\* the reads of m passes, one after the other
PassKinds(kinds, m) ==
    [j \in 1..(m * Len(kinds)) |-> kinds[((j - 1) % Len(kinds)) + 1]]

\* for _ in 0..n { push(record read field by field) }: [ok, reader, recs],
\* given the run x of the reads of the m passes entered
RecordsOf(x, width, m) ==
    IF ~x.ok THEN [ok |-> FALSE, reader |-> x.reader, recs |-> <<>>]
    ELSE [ok |-> TRUE, reader |-> x.reader,
          recs |-> [k \in 1..m |-> SubSeq(x.vals, (k - 1) * width + 1, k * width)]]
RecordsIn(r, kinds, m) == RecordsOf(ReadFields(r, PassKinds(kinds, m)), Len(kinds), m)
ReadRecords(r, kinds, n) == RecordsIn(r, kinds, Passes(r, kinds, n))

\* a faulty record count: one record short
num_lumps_short(r, stride) == (get_len(r) \div stride) - 1

\* let num_lumps = data.get_len() / stride
num_lumps(r, stride) == get_len(r) \div stride

\* A fixed-stride arm: num_lumps records are read and pushed.
FixedStrideArm(r, idx) == ReadRecords(r, Fields(idx), num_lumps(r, Stride(idx)))

----------------------------------------------------------------------------
(* Slicing the lump out of the file: lumps.rs 313-315 *)

I32Max == 2147483647

\* lump.fileofs + lump.filelen leaves the i32 range
I32AddOverflows(a, b) ==
    \/ b > 0 /\ a > I32Max - b
    \/ b < 0 /\ a < (0 - I32Max - 1) - b

\* `v as usize` of a negative i32 is 2^64 + v: above every buffer length, and
\* in the same order as the negative values themselves
UsizeLeq(a, b) ==
    IF a >= 0 /\ b >= 0 THEN a <= b
    ELSE IF a < 0 /\ b < 0 THEN a <= b
    ELSE a >= 0

\* &full_data[fileofs as usize..(fileofs + filelen) as usize] does not panic.
\* On overflow of the i32 sum a debug build panics at the addition; a release
\* build wraps the sum, which then casts to a start above the end or an end
\* above the buffer, so the slice index panics: both builds panic.
SliceOk(lump, full) ==
    /\ ~I32AddOverflows(lump.fileofs, lump.filelen)
    /\ UsizeLeq(lump.fileofs, lump.fileofs + lump.filelen)
    /\ lump.fileofs + lump.filelen >= 0
    /\ lump.fileofs + lump.filelen <= Len(full)

\* the slice itself, where SliceOk
LumpSlice(lump, full) == SubSeq(full, lump.fileofs + 1, lump.fileofs + lump.filelen)

\* a faulty absence test: a lump counts as absent by its length
IsAbsentByLength(lump) == lump.filelen = 0

\* if lump.fileofs == 0 { continue; }
IsAbsent(lump) == lump.fileofs = 0

\* lump.ident != [0, 0, 0, 0]
IsCompressed(lump) == lump.ident # <<0, 0, 0, 0>>

----------------------------------------------------------------------------
(* The compressed branch: lumps.rs 317-340 *)

\* the reads of the 17-byte wrapper header: id, actual_size, lzma_size and
\* the five property bytes
WrapperFields == <<"u32", "u32", "u32", "u8", "u8", "u8", "u8", "u8">>
WrapperSize == 17

(* lzma_rs::lzma_decompress is an external crate.  It is abstracted by a   *)
(* stand-in codec with the same interface: data_in is the 5 property       *)
(* bytes, the 8-byte little-endian unpacked size and the payload; the      *)
(* payload of a byte string B is one leading byte followed by the          *)
(* complement 255 - b of every byte of B.  Decoding fails (Err) when the   *)
(* first property byte is above 224 (lc/lp/pb out of range) or the payload *)
(* holds fewer bytes than the declared size needs; otherwise it yields the *)
(* declared number of decoded bytes, which the caller's writer receives.   *)
LzmaMaxProps == 224

LzmaDeclaredBig(data_in) == \E k \in 9..13 : data_in[k] # 0

LzmaDeclared(data_in) == data_in[6] + 256 * data_in[7] + 65536 * data_in[8]

lzma_decompress(data_in) ==
    LET payload == DropFirst(data_in, 13)
    IN  IF \/ data_in[1] > LzmaMaxProps
           \/ LzmaDeclaredBig(data_in)
           \/ Len(payload) < 1 + LzmaDeclared(data_in)
        THEN [ok |-> FALSE, written |-> <<>>]
        ELSE [ok |-> TRUE,
              written |-> [j \in 1..LzmaDeclared(data_in) |-> 255 - payload[j + 1]]]

\* `out` is a Vec<u8> used as the decoder's std::io::Write: what is written
\* is appended to what the vector already holds
WriteToVec(out, written) == out \o written

\* let mut out = vec![0; actual_size as usize]; ...; lzma_decompress(.., &mut out)
\* .unwrap(); data = LumpReader::new(&out), given the decoder's result d
Decompressed(actual_size, d) ==
    IF ~d.ok THEN [ok |-> FALSE, reader |-> LumpReader_new(<<>>)]
    ELSE [ok |-> TRUE,
          reader |-> LumpReader_new(
              WriteToVec(Repeat(0, u32_as_usize(actual_size)), d.written))]

\* data_in: the properties, the size as 8 bytes, the slice after its header
DataIn(h) ==
    SubSeq(h.vals, 4, 8) \o u64_to_le_bytes(h.vals[2])
        \o DropFirst(get_data(h.reader), WrapperSize)

\* the branch after the header reads h
DecompressAfter(h) ==
    IF ~h.ok THEN [ok |-> FALSE, reader |-> h.reader]
    ELSE Decompressed(h.vals[2], lzma_decompress(DataIn(h)))

\* The compressed branch on the reader r of the slice: [ok, reader].  The
\* header reads or the unwrap of the decoder's result may panic.
Decompress(r) == DecompressAfter(ReadFields(r, WrapperFields))

\* The reader the match receives: the slice, decompressed when the ident is
\* not zero.  [ok, reader]; where the slice itself panics no reader exists
\* and the previous one is reported.
LumpData(lump, full, prev) ==
    IF ~SliceOk(lump, full) THEN [ok |-> FALSE, reader |-> prev]
    ELSE IF IsCompressed(lump) THEN Decompress(LumpReader_new(LumpSlice(lump, full)))
    ELSE [ok |-> TRUE, reader |-> LumpReader_new(LumpSlice(lump, full))]

----------------------------------------------------------------------------
(* The Entities arm: lumps.rs 343-359 *)

\* the characters the two patterns name, and the U+FFFD of from_utf8_lossy
LBrace == 123
RBrace == 125
Quote == 34
Space == 32
Newline == 10
ReplacementChar == 65533

\* String::from_utf8_lossy, on bytes that are ASCII (kept) or that can start
\* no UTF-8 sequence (each replaced by U+FFFD); the texts decoded here hold
\* no other bytes
from_utf8_lossy(bytes) ==
    [j \in 1..Len(bytes) |-> IF bytes[j] < 128 THEN bytes[j] ELSE ReplacementChar]


\* the first index >= from at which t holds c, or 0
FirstAt(t, from, c) ==
    LET S == {q \in from..Len(t) : t[q] = c}
    IN  IF S = {} THEN 0 ELSE SetMin(S)

\* a faulty block end: a block left open is closed by the end of the text
BlockEndOrEof(t, p) ==
    IF FirstAt(t, p + 2, RBrace) # 0 THEN FirstAt(t, p + 2, RBrace)
    ELSE IF Len(t) > p THEN Len(t) ELSE 0

\* BLOCK_RE = (\{(?:.|\n)+?\}) matched at an opening brace at p: the lazy
\* body takes at least one character (any character), so the match ends at
\* the first closing brace at p + 2 or later; 0 when there is none
BlockEnd(t, p) == FirstAt(t, p + 2, RBrace)

\* the leftmost match of BLOCK_RE starting at from or later: <<p, q>> or <<>>
BlockStarts(t, from) == {p \in from..Len(t) : t[p] = LBrace /\ BlockEnd(t, p) # 0}
BlockAt(t, S) == IF S = {} THEN <<>> ELSE <<SetMin(S), BlockEnd(t, SetMin(S))>>
BlockMatch(t, from) == BlockAt(t, BlockStarts(t, from))

\* BLOCK_RE.captures_iter: the successive non-overlapping leftmost matches
RECURSIVE BlockSpans(_, _)
\* a faulty match order: the matches in reverse order
SpansAfterReversed(t, m) == IF m = <<>> THEN <<>> ELSE BlockSpans(t, m[2] + 1) \o <<m>>

SpansAfter(t, m) == IF m = <<>> THEN <<>> ELSE <<m>> \o BlockSpans(t, m[2] + 1)
BlockSpans(t, from) == SpansAfter(t, BlockMatch(t, from))

(* ITEM_RE = "(.+?)" "(.+?)"\n matched at a quote at a.  Neither group     *)
(* crosses a newline, so the match ends at the first newline after a, at   *)
(* nl, with a quote right before it; the lazy first group takes the least  *)
(* k >= 1 characters that are followed by quote, space, quote and leave at *)
(* least one character for the second group.                               *)
ItemKeyLensTo(s, a, nl) ==
    IF nl = 0 THEN {}
    ELSE {k \in 1..(nl - a - 6) :
            /\ s[a + k + 1] = Quote
            /\ s[a + k + 2] = Space
            /\ s[a + k + 3] = Quote
            /\ s[nl - 1] = Quote}
ItemKeyLens(s, a) == ItemKeyLensTo(s, a, FirstAt(s, a + 1, Newline))

\* the leftmost match of ITEM_RE starting at from or later:
\* [key, value, next] or <<>>
ItemStarts(s, from) == {a \in from..Len(s) : s[a] = Quote /\ ItemKeyLens(s, a) # {}}
ItemOf(s, a, k, nl) ==
    [key |-> SubSeq(s, a + 1, a + k), value |-> SubSeq(s, a + k + 4, nl - 2), next |-> nl + 1]
ItemAt(s, S) ==
    IF S = {} THEN <<>>
    ELSE ItemOf(s, SetMin(S), SetMin(ItemKeyLens(s, SetMin(S))), FirstAt(s, SetMin(S) + 1, Newline))
ItemMatch(s, from) == ItemAt(s, ItemStarts(s, from))

\* HashMap::new()
EmptyMap == [x \in {} |-> <<>>]

\* a faulty insert: the value of an existing key is kept
InsertKeepFirst(map, k, v) ==
    [x \in DOMAIN map \cup {k} |-> IF x \in DOMAIN map THEN map[x] ELSE v]

\* HashMap::insert: the value of an existing key is replaced
Insert(map, k, v) == [x \in DOMAIN map \cup {k} |-> IF x = k THEN v ELSE map[x]]

\* for capture in ITEM_RE.captures_iter(&capture[0]) { map.insert(...) }
RECURSIVE EntityMap(_, _, _)
MapAfter(s, m, map) ==
    IF m = <<>> THEN map ELSE EntityMap(s, m.next, Insert(map, m.key, m.value))
EntityMap(s, from, map) == MapAfter(s, ItemMatch(s, from), map)

\* the maps pushed for the text t, one per match of BLOCK_RE, in match order
MapsOf(t, spans) ==
    [j \in 1..Len(spans) |-> EntityMap(SubSeq(t, spans[j][1], spans[j][2]), 1, EmptyMap)]
ParseEntities(t) == MapsOf(t, BlockSpans(t, 1))

\* the Entities arm on the reader r
EntitiesArm(r) == ParseEntities(from_utf8_lossy(get_data(r)))

----------------------------------------------------------------------------
(* The Occlusion arm: lumps.rs 500-541 *)

\* let n = data.read_i32(); for _ in 0..n { push(record) }, given the result
\* c of the read of n: [ok, reader, count, recs]
CountedAfter(c, kinds, x) ==
    IF ~c.ok THEN [ok |-> FALSE, reader |-> c.reader, count |-> 0, recs |-> <<>>]
    ELSE [ok |-> x.ok, reader |-> x.reader, count |-> c.val, recs |-> x.recs]
CountedRead(c, kinds) ==
    CountedAfter(c, kinds, IF c.ok THEN ReadRecords(c.reader, kinds, c.val) ELSE c)
\* a faulty count read: the cursor is left where it was
ReadCountedInPlace(r, kinds) == CountedRead([read_i32(r) EXCEPT !.reader = r], kinds)

ReadCounted(r, kinds) == CountedRead(read_i32(r), kinds)

\* Occluder { count, occluder_data, poly_data_count, poly_data,
\*            vertex_index_count, vertex_indicies }
OccluderOf(od, pd, vi) ==
    [count |-> od.count,
     occluder_data |-> od.recs,
     poly_data_count |-> pd.count,
     poly_data |-> pd.recs,
     vertex_index_count |-> vi.count,
     vertex_indicies |-> [j \in 1..Len(vi.recs) |-> vi.recs[j][1]]]

\* One pass of the while body: [ok, reader, occluder].  The three counted
\* arrays are read one after the other; the first panicking read ends it.
OccluderAfterIndices(od, pd, vi) ==
    IF ~vi.ok THEN [ok |-> FALSE, reader |-> vi.reader]
    ELSE [ok |-> TRUE, reader |-> vi.reader, occluder |-> OccluderOf(od, pd, vi)]
OccluderAfterPolys(od, pd) ==
    IF ~pd.ok THEN [ok |-> FALSE, reader |-> pd.reader]
    ELSE OccluderAfterIndices(od, pd, ReadCounted(pd.reader, <<"i32">>))
OccluderAfterData(od) ==
    IF ~od.ok THEN [ok |-> FALSE, reader |-> od.reader]
    ELSE OccluderAfterPolys(od, ReadCounted(od.reader, OccluderPolyDataFields))
ReadOccluder(r) == OccluderAfterData(ReadCounted(r, OccluderDataFields))

\* while data.get_pos() < data.get_len() { ...; parsed.occluders.push(..) }
RECURSIVE OcclusionArm(_, _)
\* a faulty loop: it stops after its first pass
OcclusionAfterOnce(o, acc) ==
    [ok |-> o.ok, reader |-> o.reader,
     recs |-> IF o.ok THEN Append(acc, o.occluder) ELSE acc]
OcclusionAfter(o, acc) ==
    IF ~o.ok THEN [ok |-> FALSE, reader |-> o.reader, recs |-> acc]
    ELSE OcclusionArm(o.reader, Append(acc, o.occluder))
OcclusionArm(r, acc) ==
    IF ~(get_pos(r) < get_len(r)) THEN [ok |-> TRUE, reader |-> r, recs |-> acc]
    ELSE OcclusionAfter(ReadOccluder(r), acc)

----------------------------------------------------------------------------
(* parse_lump_data: one iteration of `for (i, lump) in lumps.iter().enumerate()` *)

\* the arm's records x pushed to the collection of slot idx
Pushed(p, idx, x) ==
    [ok |-> x.ok, reader |-> x.reader,
     parsed |-> [p EXCEPT ![Collection(idx)] = @ \o x.recs]]

\* a faulty match: the Leafs slot is routed to the entity arm as well
DispatchLeafsAsText(p, idx, r) ==
    IF idx = Entities \/ idx = Leafs
    THEN Pushed(p, Entities, [ok |-> TRUE, reader |-> r, recs |-> EntitiesArm(r)])
    ELSE IF idx \in FixedStrideSlots THEN Pushed(p, idx, FixedStrideArm(r, idx))
    ELSE IF idx = Occlusion THEN Pushed(p, idx, OcclusionArm(r, <<>>))
    ELSE [ok |-> TRUE, reader |-> r, parsed |-> p]

\* match i { ... }: [ok, reader, parsed]
Dispatch(p, idx, r) ==
    IF idx = Entities
    THEN Pushed(p, idx, [ok |-> TRUE, reader |-> r, recs |-> EntitiesArm(r)])
    ELSE IF idx \in FixedStrideSlots THEN Pushed(p, idx, FixedStrideArm(r, idx))
    ELSE IF idx = Occlusion THEN Pushed(p, idx, OcclusionArm(r, <<>>))
    ELSE [ok |-> TRUE, reader |-> r, parsed |-> p]

\* the loop body after the slice and the compressed branch, d
IterationAfter(p, idx, d) ==
    IF ~d.ok THEN [ok |-> FALSE, reader |-> d.reader, parsed |-> p]
    ELSE Dispatch(p, idx, d.reader)

\* The body of the loop for the lump of slot idx: [ok, reader, parsed];
\* ok = FALSE is a panic, which unwinds out of parse_lump_data.
Iteration(p, idx, lump, full, prev) ==
    IF IsAbsent(lump) THEN [ok |-> TRUE, reader |-> prev, parsed |-> p]
    ELSE IterationAfter(p, idx, LumpData(lump, full, prev))

----------------------------------------------------------------------------
(* The files the decoder is run on: a header, the 64-entry directory and   *)
(* the lump bytes.  One lump of some slot is laid out at the first byte    *)
(* after the directory, in one of several directory-entry variants; a      *)
(* second, well-formed lump of another slot may follow it.                 *)

\* bounds of the inputs
MaxRecords == 2     \* records in a fixed-stride lump
MaxExtra == 1       \* bytes after the last whole record
NumSeeds == 2       \* byte patterns
MaxBlocks == 2      \* blocks in a generated entity text
MaxGroups == 2      \* groups in an occlusion lump
MaxRegionLen == 4   \* bytes of a cursor region (cursor specification)
MaxLines == 3       \* lines in a generated one-block entity text
MaxPatternLen == 30 \* bytes of a patterned occlusion region (occlusion specification)

\* the first byte after the directory
DataBase == DirBase + NumLumps * LumpInfoSize

\* v.to_le_bytes() of an i32 v, two's complement
i32_to_le_bytes(v) ==
    LET lo == v % 65536
        hi == ((v - lo) \div 65536) % 65536
    IN  <<lo % 256, lo \div 256, hi % 256, hi \div 256>>

RECURSIVE Flatten(_)
Flatten(ss) == IF ss = <<>> THEN <<>> ELSE Head(ss) \o Flatten(Tail(ss))

\* n bytes of pattern `seed`; high and low bytes both occur
PatternBytes(seed, n) == [j \in 1..n |-> (seed * 101 + j * 83) % 256]

\* the directory entry of a lump
Entry(ofs, len, ident) == [fileofs |-> ofs, filelen |-> len, version |-> 0, ident |-> ident]
NoEntry == Entry(0, 0, <<0, 0, 0, 0>>)
ZeroIdent == <<0, 0, 0, 0>>
LzmaIdent == <<76, 90, 77, 65>>

EntryBytes(e) ==
    i32_to_le_bytes(e.fileofs) \o i32_to_le_bytes(e.filelen)
        \o i32_to_le_bytes(e.version) \o e.ident

\* the file: 8 header bytes ("VBSP", version 20), the directory, the lumps
BuildFile(dir, blob) ==
    <<86, 66, 83, 80, 20, 0, 0, 0>>
        \o [k \in 1..(NumLumps * LumpInfoSize) |->
               EntryBytes(dir[((k - 1) \div LumpInfoSize) + 1])[((k - 1) % LumpInfoSize) + 1]]
        \o blob

\* the stand-in codec's payload of B (see lzma_decompress)
LzmaPayload(B) == <<0>> \o [j \in 1..Len(B) |-> 255 - B[j]]

\* the 17-byte wrapper header and the payload of B
Wrap(B, props0) ==
    LzmaIdent \o i32_to_le_bytes(Len(B)) \o i32_to_le_bytes(Len(B) + 1)
        \o <<props0, 0, 0, 16, 0>> \o LzmaPayload(B)

\* entity texts
ClassnameLight ==
    <<Quote, 99, 108, 97, 115, 115, 110, 97, 109, 101, Quote, Space,
      Quote, 108, 105, 103, 104, 116, Quote, Newline>>
OriginZero ==
    <<Quote, 111, 114, 105, 103, 105, 110, Quote, Space,
      Quote, 48, Space, 48, Space, 48, Quote, Newline>>
\* "{\n\"classname\" \"light\"\n\"origin\" \"0 0 0\"\n}\n"
ExampleText == <<LBrace, Newline>> \o ClassnameLight \o OriginZero \o <<RBrace, Newline>>

\* one line "k" "v"\n
ItemLine(k, v) == <<Quote>> \o k \o <<Quote, Space, Quote>> \o v \o <<Quote, Newline>>

\* a block {\n lines }\n of the items its, a sequence of <<key, value>>
BlockText(its) ==
    <<LBrace, Newline>> \o Flatten([j \in 1..Len(its) |-> ItemLine(its[j][1], its[j][2])])
        \o <<RBrace, Newline>>

\* the item lists of the generated blocks: keys a, b; values x, y
BlockChoices ==
    { <<>>, << <<<<97>>, <<120>>>> >>, << <<<<98>>, <<121>>>> >>,
      << <<<<97>>, <<120>>>>, <<<<98>>, <<121, 121>>>> >> }

RECURSIVE SeqsUpTo(_, _)
\* the sequences over S of length at most n
SeqsUpTo(S, n) ==
    IF n = 0 THEN {<<>>}
    ELSE LET shorter == SeqsUpTo(S, n - 1)
         IN  shorter \cup {Append(q, x) : q \in shorter, x \in S}

\* the block lists of the generated texts, and the text of one
GeneratedBlockLists == SeqsUpTo(BlockChoices, MaxBlocks)
RenderBlocks(bl) == Flatten([j \in 1..Len(bl) |-> BlockText(bl[j])])

\* the lines of the generated one-block texts: an item <<key, value>> (a
\* key twice with different values, and another key), or <<bytes>>, a line
\* that is no item (no quotes at all; two spaces between the tokens)
LineChoices ==
    { <<<<97>>, <<120>>>>, <<<<97>>, <<121>>>>, <<<<98>>, <<120>>>>,
      << <<106, 117, 110, 107, Newline>> >>,
      << <<Quote, 98, Quote, Space, Space, Quote, 121, Quote, Newline>> >> }
LineText(l) == IF Len(l) = 2 THEN ItemLine(l[1], l[2]) ELSE l[1]
GeneratedLineLists == SeqsUpTo(LineChoices, MaxLines)
LinesBlock(ls) ==
    <<LBrace, Newline>> \o Flatten([j \in 1..Len(ls) |-> LineText(ls[j])]) \o <<RBrace, Newline>>

\* texts with unmatched braces, an empty block, a duplicated key, a line
\* that is no item, a byte that is not UTF-8, no brace at all
SpecialTexts ==
    { ExampleText,
      <<LBrace, Newline>> \o ItemLine(<<97>>, <<120>>),
      BlockText(<< <<<<97>>, <<120>>>> >>) \o <<LBrace, Newline>> \o ItemLine(<<98>>, <<121>>),
      <<LBrace, RBrace>> \o BlockText(<< <<<<97>>, <<120>>>> >>),
      <<LBrace, Newline>> \o ItemLine(<<97>>, <<120>>) \o <<106, 117, 110, 107, Newline>>
          \o ItemLine(<<97>>, <<121>>) \o <<RBrace, Newline>>,
      <<LBrace, Newline>> \o ItemLine(<<97>>, <<255, 120>>) \o <<RBrace, Newline>>,
      <<LBrace>>,
      <<97, RBrace, Newline>> }

\* occlusion groups: count, 40-byte records, count, 12-byte records, count,
\* 4-byte indices
GroupBytes(g) ==
    i32_to_le_bytes(g[1]) \o PatternBytes(1, 40 * (IF g[1] > 0 THEN g[1] ELSE 0))
        \o i32_to_le_bytes(g[2]) \o PatternBytes(2, 12 * (IF g[2] > 0 THEN g[2] ELSE 0))
        \o i32_to_le_bytes(g[3]) \o PatternBytes(3, 4 * (IF g[3] > 0 THEN g[3] ELSE 0))
GroupChoices == { <<0, 0, 0>>, <<1, 1, 2>>, <<0 - 1, 0, 0>> }
OcclusionBlobs ==
    LET whole == {Flatten([j \in 1..Len(gs) |-> GroupBytes(gs[j])]) :
                     gs \in SeqsUpTo(GroupChoices, MaxGroups)}
    IN  whole \cup {SubSeq(b, 1, Len(b) - 1) : b \in whole \ {<<>>}}
              \cup {i32_to_le_bytes(1000)}

\* the lump bytes tried in slot idx
Blobs(idx) ==
    IF idx = Entities THEN SpecialTexts \cup {<<>>}
    ELSE IF idx \in FixedStrideSlots
    THEN {PatternBytes(seed, k * Stride(idx) + e) :
             seed \in 1..NumSeeds, k \in 0..MaxRecords, e \in 0..MaxExtra}
    ELSE IF idx = Occlusion THEN OcclusionBlobs
    ELSE {PatternBytes(1, 5)}

\* one blob of slot idx for the variants that are tried once per slot
OneBlob(idx) ==
    IF idx = Entities THEN ExampleText
    ELSE IF idx \in FixedStrideSlots THEN PatternBytes(1, Stride(idx))
    ELSE IF idx = Occlusion THEN GroupBytes(<<1, 1, 2>>)
    ELSE PatternBytes(1, 5)

LayoutVariants == {"exact", "wrapped", "overrun"}
EdgeVariants ==
    {"absent", "absent_plain", "negative_len", "negative_ofs", "overflow",
     "garbage", "truncated", "bad_props", "short_header"}

\* the second lump: two lightmap samples in slot Lighting, or one vertex in
\* slot Vertexes when the first lump is the Lighting one
SecondSlot(idx) == IF idx = Lighting THEN Vertexes ELSE Lighting
SecondBlob(idx) == PatternBytes(3, IF idx = Lighting THEN VertexStride ELSE 2 * LightMapSampleStride)

\* the bytes laid out for the first lump
FirstBytes(blob, var) ==
    CASE var \in {"wrapped", "truncated"} -> Wrap(blob, 93)
      [] var = "bad_props" -> Wrap(blob, LzmaMaxProps + 1)
      [] var = "short_header" -> SubSeq(Wrap(blob, 93), 1, WrapperSize - 1)
      [] OTHER -> blob

\* the directory entry of the first lump, n bytes at DataBase in a file of
\* `total` bytes
FirstEntry(n, total, var) ==
    CASE var = "exact" -> Entry(DataBase, n, ZeroIdent)
      [] var = "wrapped" -> Entry(DataBase, n, LzmaIdent)
      [] var = "overrun" -> Entry(DataBase, total - DataBase + 1, ZeroIdent)
      [] var = "absent" -> Entry(0, I32Max, LzmaIdent)
      [] var = "absent_plain" -> Entry(0, n, ZeroIdent)
      [] var = "negative_len" -> Entry(DataBase, 0 - 1, ZeroIdent)
      [] var = "negative_ofs" -> Entry(0 - 1, n, ZeroIdent)
      [] var = "overflow" -> Entry(DataBase, I32Max, ZeroIdent)
      [] var = "garbage" -> Entry(DataBase, n, LzmaIdent)
      [] var = "truncated" -> Entry(DataBase, n - 1, LzmaIdent)
      [] var = "bad_props" -> Entry(DataBase, n, LzmaIdent)
      [] var = "short_header" -> Entry(DataBase, n, LzmaIdent)

\* the file of one scenario
ScenarioFile(idx, blob, var, second) ==
    LET first == FirstBytes(blob, var)
        snd == IF second THEN SecondBlob(idx) ELSE <<>>
        total == DataBase + Len(first) + Len(snd)
        dir == [n \in 1..NumLumps |->
                   IF n = idx + 1 THEN FirstEntry(Len(first), total, var)
                   ELSE IF second /\ n = SecondSlot(idx) + 1
                   THEN Entry(DataBase + Len(first), Len(snd), ZeroIdent)
                   ELSE NoEntry]
    IN  BuildFile(dir, first \o snd)

\* a file with the example text as the lump of slot idx and, when `both`, a
\* one-block text as the lump of slot 0 before it
TextElsewhere(idx, both) ==
    LET first == IF both THEN BlockText(<< <<<<97>>, <<120>>>> >>) ELSE <<>>
        dir == [n \in 1..NumLumps |->
                   IF both /\ n = Entities + 1 THEN Entry(DataBase, Len(first), ZeroIdent)
                   ELSE IF n = idx + 1
                   THEN Entry(DataBase + Len(first), Len(ExampleText), ZeroIdent)
                   ELSE NoEntry]
    IN  BuildFile(dir, first \o ExampleText)

\* the slots of the further fixed-stride kinds (their arms are `=> ()`) and
\* the record sizes of those kinds
ListedSlots ==
    {Edges, Surfedges, Models, Leaffaces, Leafbrushes, Brushes, Brushsides,
     Areas, Areaportals, Dispinfo}
ListedStride(s) ==
    CASE s \in {Leaffaces, Leafbrushes} -> 2
      [] s \in {Edges, Surfedges} -> 4
      [] s \in {Brushsides, Areas} -> 8
      [] s \in {Brushes, Areaportals} -> 12
      [] s = Models -> 48
      [] s = Dispinfo -> 176

\* slots with a decoder arm, and all slots
DecodedSlots == {Entities, Occlusion} \cup FixedStrideSlots
AllSlots == 0..(NumLumps - 1)

Inputs ==
    UNION {{ScenarioFile(idx, blob, var, second) :
               blob \in Blobs(idx), var \in LayoutVariants, second \in BOOLEAN} :
                   idx \in DecodedSlots}
    \cup UNION {{ScenarioFile(idx, OneBlob(idx), var, second) :
                    var \in EdgeVariants, second \in BOOLEAN} : idx \in DecodedSlots}
    \cup UNION {{ScenarioFile(idx, OneBlob(idx), var, FALSE) :
                    var \in {"exact", "wrapped", "overrun", "absent", "garbage"}} :
                        idx \in AllSlots \ DecodedSlots}
    \cup {ScenarioFile(Entities, RenderBlocks(bl), "exact", FALSE) : bl \in GeneratedBlockLists}
    \cup {ScenarioFile(Entities, LinesBlock(ls), "exact", FALSE) : ls \in GeneratedLineLists}
    \cup {TextElsewhere(idx, both) : idx \in {Lighting, Leafs}, both \in BOOLEAN}
    \cup {ScenarioFile(s, PatternBytes(1, 2 * ListedStride(s)), "exact", FALSE) : s \in ListedSlots}
    \cup {SubSeq(ScenarioFile(Lighting, OneBlob(Lighting), "exact", FALSE), 1, n) :
             n \in {0, DirBase, DataBase - 1}}

----------------------------------------------------------------------------
(* The decode of one file: test_program's read_lump_info, then             *)
(* parse_lump_data, one loop iteration per step.                           *)

\* no read has returned yet
NoRead == [kind |-> "none", val |-> 0]

Init ==
    /\ full_data \in Inputs
    /\ lumps = <<>>
    /\ i = 0
    /\ parsed = EmptyParsed
    /\ data = LumpReader_new(<<>>)
    /\ pc = "read_lump_info"
    /\ ret = NoRead

\* let lumps = bsp_parser.read_lump_info(); it panics on a short buffer
ReadLumpInfo ==
    /\ pc = "read_lump_info"
    /\ LET x == read_lump_info(full_data)
       IN  /\ lumps' = x.lumps
           /\ pc' = IF x.ok THEN "parse_lump_data" ELSE "panicked"
    /\ UNCHANGED <<full_data, i, parsed, data, ret>>

\* the loop is at the lump of slot i
AtLump == pc = "parse_lump_data" /\ i < Len(lumps)

\* the outcome x of the loop body takes effect: the next slot, or the panic
Iterated(x) ==
    /\ parsed' = x.parsed
    /\ data' = x.reader
    /\ i' = IF x.ok THEN i + 1 ELSE i
    /\ pc' = IF x.ok THEN pc ELSE "panicked"
    /\ UNCHANGED <<full_data, lumps, ret>>

\* the loop body on the lump of slot i
Body == Iteration(parsed, i, lumps[i + 1], full_data, data)

\* if lump.fileofs == 0 { continue; }
SkipAbsent ==
    /\ AtLump
    /\ IsAbsent(lumps[i + 1])
    /\ Iterated(Body)

\* the arms of the match, for a lump that is present
ParseEntitiesLump ==
    /\ AtLump
    /\ i = Entities /\ ~IsAbsent(lumps[i + 1])
    /\ Iterated(Body)

ParsePlaneLump ==
    /\ AtLump
    /\ i = Plane /\ ~IsAbsent(lumps[i + 1])
    /\ Iterated(Body)

ParseTexdataLump ==
    /\ AtLump
    /\ i = Texdata /\ ~IsAbsent(lumps[i + 1])
    /\ Iterated(Body)

ParseVertexesLump ==
    /\ AtLump
    /\ i = Vertexes /\ ~IsAbsent(lumps[i + 1])
    /\ Iterated(Body)

ParseNodesLump ==
    /\ AtLump
    /\ i = Nodes /\ ~IsAbsent(lumps[i + 1])
    /\ Iterated(Body)

ParseTexinfoLump ==
    /\ AtLump
    /\ i = Texinfo /\ ~IsAbsent(lumps[i + 1])
    /\ Iterated(Body)

ParseFacesLump ==
    /\ AtLump
    /\ i = Faces /\ ~IsAbsent(lumps[i + 1])
    /\ Iterated(Body)

ParseLightingLump ==
    /\ AtLump
    /\ i = Lighting /\ ~IsAbsent(lumps[i + 1])
    /\ Iterated(Body)

ParseOcclusionLump ==
    /\ AtLump
    /\ i = Occlusion /\ ~IsAbsent(lumps[i + 1])
    /\ Iterated(Body)

\* the arms `=> ()` and the slots past them
ParseInertLump ==
    /\ AtLump
    /\ i \notin DecodedSlots /\ ~IsAbsent(lumps[i + 1])
    /\ Iterated(Body)

\* the loop is over: `parsed` is returned
Return ==
    /\ pc = "parse_lump_data"
    /\ i = Len(lumps)
    /\ pc' = "returned"
    /\ UNCHANGED <<full_data, lumps, i, parsed, data, ret>>

Next ==
    \/ ReadLumpInfo
    \/ SkipAbsent
    \/ ParseEntitiesLump
    \/ ParsePlaneLump
    \/ ParseTexdataLump
    \/ ParseVertexesLump
    \/ ParseNodesLump
    \/ ParseTexinfoLump
    \/ ParseFacesLump
    \/ ParseLightingLump
    \/ ParseOcclusionLump
    \/ ParseInertLump
    \/ Return

Spec == Init /\ [][Next]_vars

----------------------------------------------------------------------------
(* The byte cursor on its own: a LumpReader over a region, and any         *)
(* sequence of its reads.                                                  *)

ByteChoices == {0, 1, 128, 255}
Regions == SeqsUpTo(ByteChoices, MaxRegionLen)

InitReader ==
    /\ full_data = <<>>
    /\ lumps = <<>>
    /\ i = 0
    /\ parsed = EmptyParsed
    /\ data \in {LumpReader_new(region) : region \in Regions}
    /\ pc = "reading"
    /\ ret = NoRead

\* the outcome x of a read of `kind` takes effect: the value is returned, or
\* the panic unwinds
ReadDone(kind, x) ==
    /\ data' = x.reader
    /\ ret' = IF x.ok THEN [kind |-> kind, val |-> x.val] ELSE ret
    /\ pc' = IF x.ok THEN pc ELSE "panicked"
    /\ UNCHANGED <<full_data, lumps, i, parsed>>

Read_f32 ==
    /\ pc = "reading"
    /\ ReadDone("f32", read_f32(data))

Read_i32 ==
    /\ pc = "reading"
    /\ ReadDone("i32", read_i32(data))

Read_u32 ==
    /\ pc = "reading"
    /\ ReadDone("u32", read_u32(data))

Read_u16 ==
    /\ pc = "reading"
    /\ ReadDone("u16", read_u16(data))

Read_i16 ==
    /\ pc = "reading"
    /\ ReadDone("i16", read_i16(data))

Read_u8 ==
    /\ pc = "reading"
    /\ ReadDone("u8", read_u8(data))

Read_i8 ==
    /\ pc = "reading"
    /\ ReadDone("i8", read_i8(data))

NextReader ==
    \/ Read_f32
    \/ Read_i32
    \/ Read_u32
    \/ Read_u16
    \/ Read_i16
    \/ Read_u8
    \/ Read_i8

SpecReader == InitReader /\ [][NextReader]_vars

----------------------------------------------------------------------------
(* Properties *)

\* the loop body of slot s has run to its end, or parse_lump_data returned
Done(s) == pc = "returned" \/ (pc = "parse_lump_data" /\ i = s + 1)

\* the lump of slot s is present and not compressed
Plain(s) == lumps[s + 1].fileofs # 0 /\ lumps[s + 1].ident = <<0, 0, 0, 0>>

\* the bytes [fileofs, fileofs + filelen) of the file
Region(s) ==
    SubSeq(full_data, lumps[s + 1].fileofs + 1, lumps[s + 1].fileofs + lumps[s + 1].filelen)

\* C1: a failure while handling one slot is contained to that slot:
\* parse_lump_data goes on to the later slots and returns; only the directory
\* read (lumps still empty) may end the decode.
C1_FailureContained == pc = "panicked" => lumps = <<>>

\* C2: a fixed-stride lump whose length is no multiple of the stride fails;
\* its loop body never runs to its end with the trailing bytes dropped.
C2_MisalignedFails ==
    \A s \in FixedStrideSlots :
        ~(Done(s) /\ Plain(s) /\ lumps[s + 1].filelen % Stride(s) # 0)

\* C3: a present, uncompressed fixed-stride lump of exactly k * stride bytes
\* yields exactly k records, record j being the one decoded from bytes
\* [j * stride, (j + 1) * stride) of the lump.
C3_ExactRecords ==
    \A s \in FixedStrideSlots :
        (Done(s) /\ Plain(s) /\ lumps[s + 1].filelen % Stride(s) = 0) =>
            /\ Len(parsed[Collection(s)]) = lumps[s + 1].filelen \div Stride(s)
            /\ \A j \in 0..(Len(parsed[Collection(s)]) - 1) :
                  parsed[Collection(s)][j + 1] =
                      ReadFields(LumpReader_new(SubSeq(Region(s), j * Stride(s) + 1,
                                                       (j + 1) * Stride(s))),
                                 Fields(s)).vals

\* two different TexInfo records were decoded from a lump of two strides
C3_Witness ==
    /\ pc = "returned"
    /\ Plain(Texinfo)
    /\ lumps[Texinfo + 1].filelen = 2 * TexInfoStride
    /\ Len(parsed.texinfo) = 2
    /\ parsed.texinfo[1] # parsed.texinfo[2]

\* C4: a directory entry with offset 0 is skipped whatever its other fields
\* are: the step appends nothing, makes no reader (no slice, no
\* decompression), does not fail, and goes on to the next slot.
C4_AbsentSkipped ==
    [][(pc = "parse_lump_data" /\ i < Len(lumps) /\ lumps[i + 1].fileofs = 0) =>
          (parsed' = parsed /\ data' = data /\ pc' = pc /\ i' = i + 1)]_vars

\* an entry with offset 0, a length past the buffer and a non-zero ident was
\* passed over, and the lump after it was decoded
C4_Witness ==
    /\ pc = "returned"
    /\ \E s \in AllSlots :
          /\ lumps[s + 1].fileofs = 0
          /\ lumps[s + 1].filelen > Len(full_data)
          /\ lumps[s + 1].ident # <<0, 0, 0, 0>>
          /\ s < Lighting
    /\ Len(parsed.lightmap_samples) = 2

\* C5: a slice [offset, offset + length) that exceeds the buffer is an error
\* outcome of that slot, never a crash of the decode.
C5_RangeErrorNotCrash ==
    (pc = "panicked" /\ lumps # <<>>) =>
        /\ ~I32AddOverflows(lumps[i + 1].fileofs, lumps[i + 1].filelen)
        /\ lumps[i + 1].fileofs >= 0
        /\ lumps[i + 1].filelen >= 0
        /\ lumps[i + 1].fileofs + lumps[i + 1].filelen <= Len(full_data)

\* the declared decompressed size in the wrapper header of region b
DeclaredSize(b) == b[5] + 256 * b[6] + 65536 * b[7]

\* C6: the region a compressed lump is decoded from equals the decompressed
\* bytes exactly: it has the declared decompressed size and holds the decoded
\* payload, nothing else.
C6_RoundTrip ==
    \A s \in AllSlots :
        (pc = "parse_lump_data" /\ i = s + 1 /\ lumps[s + 1].fileofs # 0
            /\ lumps[s + 1].ident # <<0, 0, 0, 0>>) =>
            /\ Len(get_data(data)) = DeclaredSize(Region(s))
            /\ get_data(data) =
                  [j \in 1..DeclaredSize(Region(s)) |-> 255 - Region(s)[WrapperSize + 1 + j]]

\* C7: a read past the end of the region is a recoverable error value, not a
\* panic.
C7_ReadRecoverable == pc # "panicked"

\* the little-endian value of the bytes bs read as `kind`
LittleEndian(kind, bs) ==
    CASE kind = "u8" -> bs[1]
      [] kind = "i8" -> IF bs[1] < 128 THEN bs[1] ELSE bs[1] - 256
      [] kind = "u16" -> bs[1] + bs[2] * 256
      [] kind = "i16" -> bs[1] + bs[2] * 256 - (IF bs[2] < 128 THEN 0 ELSE 65536)
      [] kind \in {"u32", "f32"} -> <<bs[3] + bs[4] * 256, bs[1] + bs[2] * 256>>
      [] kind = "i32" ->
            bs[1] + bs[2] * 256 + bs[3] * 65536
                + (IF bs[4] < 128 THEN bs[4] ELSE bs[4] - 256) * 16777216

WidthOf(kind) == IF kind \in {"u8", "i8"} THEN 1 ELSE IF kind \in {"u16", "i16"} THEN 2 ELSE 4

\* C8: a successful read of width w sets position to the old position + w,
\* returns the little-endian value of the w bytes at the old position and
\* leaves position <= region length; position never decreases.
C8_ReadAdvances ==
    [][/\ data'.position >= data.position
       /\ data'.data = data.data
       /\ pc' = "reading" =>
            /\ data'.position = data.position + WidthOf(ret'.kind)
            /\ data'.position <= Len(data.data)
            /\ ret'.val = LittleEndian(ret'.kind,
                                       SubSeq(data.data, data.position + 1, data'.position))]_vars

\* after an earlier read, an i16 read returned a negative value and left the
\* cursor at the end of the region
C8_Witness ==
    /\ pc = "reading"
    /\ ret.kind = "i16"
    /\ ret.val < 0
    /\ data.position > 2
    /\ data.position = Len(data.data)

\* the map an item list stands for (its keys are distinct)
MapOf(its) ==
    [k \in {its[j][1] : j \in 1..Len(its)} |->
        its[CHOOSE j \in 1..Len(its) : its[j][1] = k][2]]

LastAt(t, c) ==
    IF \E q \in 1..Len(t) : t[q] = c
    THEN CHOOSE q \in 1..Len(t) : t[q] = c /\ \A q2 \in (q + 1)..Len(t) : t[q2] # c
    ELSE 0

\* the text of an uncompressed Entities lump holds an opening brace with no
\* closing brace after it
UnmatchedBrace(t) == \E p \in 1..Len(t) : t[p] = LBrace /\ p > LastAt(t, RBrace)

\* C10: an opening brace with no closing brace after it yields no entity and
\* no error: the loop body does not fail, and the entities are those of the
\* text up to its last closing brace (none when it has no closing brace).
C10_UnmatchedBraceIgnored ==
    /\ (pc = "panicked" /\ lumps # <<>> /\ i = Entities /\ Plain(Entities)) =>
          ~SliceOk(lumps[Entities + 1], full_data)
    /\ (Done(Entities) /\ Plain(Entities)
            /\ UnmatchedBrace(from_utf8_lossy(Region(Entities)))) =>
          /\ LastAt(from_utf8_lossy(Region(Entities)), RBrace) = 0 => parsed.entities = <<>>
          /\ parsed.entities =
                ParseEntities(SubSeq(from_utf8_lossy(Region(Entities)), 1,
                                     LastAt(from_utf8_lossy(Region(Entities)), RBrace)))

\* a text of one whole block followed by a block left open was decoded into
\* one entity
C10_Witness ==
    /\ pc = "returned"
    /\ Plain(Entities)
    /\ UnmatchedBrace(from_utf8_lossy(Region(Entities)))
    /\ LastAt(from_utf8_lossy(Region(Entities)), RBrace) # 0
    /\ Len(parsed.entities) = 1

\* occlusion groups whose three counts are all non-negative
WellFormedGroups == {g \in GroupChoices : g[1] >= 0 /\ g[2] >= 0 /\ g[3] >= 0}

\* the lump of the groups gs laid back to back
GroupsBlob(gs) == Flatten([j \in 1..Len(gs) |-> GroupBytes(gs[j])])

\* the occluder o holds the counts of the group g and arrays of those lengths
HoldsGroup(o, g) ==
    /\ o.count = g[1] /\ Len(o.occluder_data) = g[1]
    /\ o.poly_data_count = g[2] /\ Len(o.poly_data) = g[2]
    /\ o.vertex_index_count = g[3] /\ Len(o.vertex_indicies) = g[3]
    /\ \A k \in 1..g[1] : Len(o.occluder_data[k]) = Len(OccluderDataFields)
    /\ \A k \in 1..g[2] : Len(o.poly_data[k]) = Len(OccluderPolyDataFields)
    /\ \A k \in 1..g[3] :
          o.vertex_indicies[k] = LittleEndian("i32", SubSeq(PatternBytes(3, 4 * g[3]), 4 * k - 3, 4 * k))

\* C11: an uncompressed Occlusion lump of n back-to-back well-formed groups
\* decodes without failure to exactly n occluders in group order, each
\* holding its group's three counts and arrays of those lengths.
C11_OccluderGroups ==
    \A gs \in SeqsUpTo(WellFormedGroups, MaxGroups) :
        (lumps # <<>> /\ i >= Occlusion /\ Plain(Occlusion)
            /\ SliceOk(lumps[Occlusion + 1], full_data)
            /\ Region(Occlusion) = GroupsBlob(gs)) =>
            /\ ~(pc = "panicked" /\ i = Occlusion)
            /\ Done(Occlusion) =>
                  /\ Len(parsed.occluders) = Len(gs)
                  /\ \A j \in 1..Len(gs) : HoldsGroup(parsed.occluders[j], gs[j])

\* a group with records followed by a group whose counts are all zero was
\* decoded into two occluders
C11_Witness ==
    /\ pc = "returned"
    /\ Plain(Occlusion)
    /\ Region(Occlusion) = GroupsBlob(<< <<1, 1, 2>>, <<0, 0, 0>> >>)
    /\ Len(parsed.occluders) = 2
    /\ parsed.occluders[2].count = 0

\* C12: a slot with no implemented decoder is never an error: the decode
\* never fails at such a slot, whatever the entry's offset, length and ident.
C12_InertNeverFails == ~(pc = "panicked" /\ lumps # <<>> /\ i \notin DecodedSlots)

\* C13: slot 0, and only slot 0, is routed to the entity parser: a step at
\* any other slot leaves the entities as they are, a step at an absent slot 0
\* too, and a step at a present slot 0 that does not fail appends exactly the
\* entities of the text of that slot's lump data.
C13_OnlySlotZeroIsText ==
    [][(pc = "parse_lump_data" /\ i < Len(lumps)) =>
          /\ i # Entities => parsed'.entities = parsed.entities
          /\ (i = Entities /\ lumps[i + 1].fileofs = 0) => parsed'.entities = parsed.entities
          /\ (i = Entities /\ lumps[i + 1].fileofs # 0 /\ pc' # "panicked") =>
                /\ parsed'.entities =
                      parsed.entities \o ParseEntities(from_utf8_lossy(get_data(data')))
                /\ Plain(Entities) => get_data(data') = Region(Entities)]_vars

\* the example text was the Lighting lump and a one-block text the lump of
\* slot 0: one entity, and the example text decoded as ten lightmap samples
C13_Witness ==
    /\ pc = "returned"
    /\ Plain(Entities)
    /\ Plain(Lighting)
    /\ Region(Lighting) = ExampleText
    /\ Len(parsed.entities) = 1
    /\ Len(parsed.lightmap_samples) = Len(ExampleText) \div LightMapSampleStride

\* the directory entry held in the 16 bytes b
EntryOf(b) ==
    [fileofs |-> LittleEndian("i32", SubSeq(b, 1, 4)),
     filelen |-> LittleEndian("i32", SubSeq(b, 5, 8)),
     version |-> LittleEndian("i32", SubSeq(b, 9, 12)),
     ident |-> SubSeq(b, 13, 16)]

\* C14: on a buffer of at least 1032 bytes read_lump_info returns the 64
\* entries in slot order, entry n being the one held in bytes
\* [8 + 16n, 8 + 16n + 16); on a shorter buffer the directory read fails as
\* a whole: no directory, no decoding, no aggregate result.
C14_DirectoryRead ==
    /\ (pc # "read_lump_info" /\ Len(full_data) >= 1032) =>
          /\ Len(lumps) = 64
          /\ \A n \in 0..63 :
                lumps[n + 1] = EntryOf(SubSeq(full_data, 8 + 16 * n + 1, 8 + 16 * n + 16))
    /\ (pc # "read_lump_info" /\ Len(full_data) < 1032) =>
          pc = "panicked" /\ lumps = <<>> /\ parsed = EmptyParsed /\ i = 0

\* the directory of a file with a compressed lump in slot 0 and a second lump
\* in the Lighting slot was read
C14_Witness ==
    /\ pc = "parse_lump_data"
    /\ i = 0
    /\ Len(lumps) = 64
    /\ lumps[Entities + 1].ident = LzmaIdent
    /\ lumps[Entities + 1].fileofs = 1032
    /\ lumps[Lighting + 1].fileofs > 1032
    /\ lumps[Lighting + 1].filelen = 8

\* the number of records the aggregate result holds
RecordsHeld(p) ==
    Len(p.entities) + Len(p.planes) + Len(p.texdata) + Len(p.vertex_list)
        + Len(p.nodes) + Len(p.texinfo) + Len(p.faces) + Len(p.lightmap_samples)
        + Len(p.occluders)

\* C15: the slots of the further fixed-stride kinds (Edge, Surfedges, Model,
\* Leaffaces, Leafbrushes, Brush, Brushside, Area, AreaPortal,
\* DisplacementInfo) are decoded too: once the loop body has run for a
\* present uncompressed lump of k records of such a kind, the aggregate
\* result holds those k records.
C15_ListedKindsDecoded ==
    \A s \in ListedSlots :
        (Done(s) /\ Plain(s) /\ SliceOk(lumps[s + 1], full_data)
            /\ lumps[s + 1].filelen % ListedStride(s) = 0) =>
            RecordsHeld(parsed) >= lumps[s + 1].filelen \div ListedStride(s)

\* the collection of the kind of slot s, "none" for a slot without a decoder
KindOf(s) ==
    CASE s = 0 -> "entities"
      [] s = 1 -> "planes"
      [] s = 2 -> "texdata"
      [] s = 3 -> "vertex_list"
      [] s = 5 -> "nodes"
      [] s = 6 -> "texinfo"
      [] s = 7 -> "faces"
      [] s = 8 -> "lightmap_samples"
      [] s = 9 -> "occluders"
      [] OTHER -> "none"

\* the collection of slot s's kind when the lump of slot s is decoded on its
\* own, from an empty result
DecodedAlone(s) ==
    Iteration(EmptyParsed, s, lumps[s + 1], full_data, LumpReader_new(<<>>)).parsed[KindOf(s)]

\* C16: lumps are decode-independent.  A loop step at slot i changes no
\* collection but the one of slot i's kind, and as long as the decode has
\* not failed, the collection of every slot already passed is what that
\* slot's entry and bytes decode to on their own, and the collection of every
\* slot not yet reached is empty.
C16_DecodeIndependent ==
    /\ [][(pc = "parse_lump_data" /\ i < Len(lumps)) =>
             \A c \in DOMAIN parsed : c # KindOf(i) => parsed'[c] = parsed[c]]_vars
    /\ []((pc \in {"parse_lump_data", "returned"}) =>
             \A s \in DecodedSlots :
                 parsed[KindOf(s)] = IF s < i THEN DecodedAlone(s) ELSE <<>>)

\* a file whose Lighting lump lies before its Vertexes lump was decoded into
\* one vertex and one lightmap sample
C16_Witness ==
    /\ pc = "returned"
    /\ Plain(Vertexes) /\ Plain(Lighting)
    /\ lumps[Lighting + 1].fileofs < lumps[Vertexes + 1].fileofs
    /\ Len(parsed.vertex_list) = 1
    /\ Len(parsed.lightmap_samples) = 1

\* the spans the claim describes: from an opening brace to the first closing
\* brace after it, left to right, none overlapping another
RECURSIVE FirstBraceSpans(_, _)
FirstBraceSpans(t, from) ==
    LET S == {p \in from..Len(t) : t[p] = LBrace /\ FirstAt(t, p + 1, RBrace) # 0}
    IN  IF S = {} THEN <<>>
        ELSE << <<SetMin(S), FirstAt(t, SetMin(S) + 1, RBrace)>> >>
                 \o FirstBraceSpans(t, FirstAt(t, SetMin(S) + 1, RBrace) + 1)

\* C17: every block span starts at an opening brace and ends at the first
\* closing brace after it, a block with nothing between its braces included:
\* the entities of an uncompressed slot-0 text are the maps of exactly those
\* spans.
C17_SpanEndsAtFirstBrace ==
    (Done(Entities) /\ Plain(Entities)) =>
        /\ BlockSpans(from_utf8_lossy(Region(Entities)), 1)
              = FirstBraceSpans(from_utf8_lossy(Region(Entities)), 1)
        /\ parsed.entities =
              MapsOf(from_utf8_lossy(Region(Entities)),
                     FirstBraceSpans(from_utf8_lossy(Region(Entities)), 1))

\* the mapping the lines ls stand for: the keys of its item lines, each with
\* the value of the last item line that has the key
LastWins(ls) ==
    [k \in {ls[j][1] : j \in {n \in 1..Len(ls) : Len(ls[n]) = 2}} |->
        ls[CHOOSE j \in 1..Len(ls) :
               /\ Len(ls[j]) = 2 /\ ls[j][1] = k
               /\ \A n \in (j + 1)..Len(ls) : ~(Len(ls[n]) = 2 /\ ls[n][1] = k)][2]]

\* C18: within one block a key occurring on several item lines holds the
\* value of the last of them, and a line that is no item adds no key and
\* causes no failure: the one-block text of the lines ls decodes, without a
\* failure, to the one mapping LastWins(ls).
C18_LastKeyWins ==
    \A ls \in GeneratedLineLists :
        (lumps # <<>> /\ i >= Entities /\ Plain(Entities)
            /\ SliceOk(lumps[Entities + 1], full_data)
            /\ Region(Entities) = LinesBlock(ls)) =>
            /\ ~(pc = "panicked" /\ i = Entities)
            /\ Done(Entities) => parsed.entities = << LastWins(ls) >>

\* a block with the key a on two item lines and a line that is no item
\* between them was decoded: a holds the later value
C18_Witness ==
    /\ pc = "returned"
    /\ Plain(Entities)
    /\ Region(Entities) =
          LinesBlock(<< <<<<97>>, <<120>>>>, << <<106, 117, 110, 107, Newline>> >>,
                        <<<<97>>, <<121>>>> >>)
    /\ Len(parsed.entities) = 1
    /\ parsed.entities[1][<<97>>] = <<121>>

----------------------------------------------------------------------------
(* The Occlusion arm on its own, one pass of its while loop per step, over *)
(* regions of whole groups, cut groups, groups with negative counts, a     *)
(* count far past the region, and patterned bytes.                         *)

OcclusionRegions ==
    OcclusionBlobs
        \cup {PatternBytes(seed, n) : seed \in 1..NumSeeds, n \in 0..MaxPatternLen}
        \cup {Flatten([j \in 1..k |-> GroupBytes(<<0 - 1, 0 - 2, 0 - 3>>)]) : k \in 0..(MaxGroups + 1)}

InitOcclusion ==
    /\ data \in {LumpReader_new(b) : b \in OcclusionRegions}
    /\ parsed = EmptyParsed
    /\ pc = "occluding"
    /\ full_data = <<>>
    /\ lumps = <<>>
    /\ i = Occlusion
    /\ ret = NoRead

\* the counted array x has been read: the cursor moves, a failed read panics
CountedDone(x, then) ==
    /\ data' = x.reader
    /\ pc' = IF x.ok THEN then ELSE "panicked"
    /\ UNCHANGED <<full_data, lumps, i>>

\* while data.get_pos() < data.get_len() {
\*     let count = data.read_i32(); for _ in 0..count { occluder_data.push(..) }
\* `ret` holds the locals of the pass: where it began, and occluder_data
ReadOccluderData ==
    /\ pc = "occluding"
    /\ get_pos(data) < get_len(data)
    /\ CountedDone(ReadCounted(data, OccluderDataFields), "poly_data")
    /\ ret' = [kind |-> "occluder",
               val |-> [start |-> get_pos(data),
                        od |-> ReadCounted(data, OccluderDataFields)]]
    /\ UNCHANGED parsed

\* let poly_data_count = data.read_i32(); for _ in 0..poly_data_count { .. }
ReadPolyData ==
    /\ pc = "poly_data"
    /\ CountedDone(ReadCounted(data, OccluderPolyDataFields), "vertex_indicies")
    /\ ret' = [kind |-> "occluder",
               val |-> [start |-> ret.val.start, od |-> ret.val.od,
                        pd |-> ReadCounted(data, OccluderPolyDataFields)]]
    /\ UNCHANGED parsed

\* the occluder of the pass pushed, when its last array was read
PushedOccluder(vi) ==
    IF vi.ok
    THEN [parsed EXCEPT !.occluders = Append(@, OccluderOf(ret.val.od, ret.val.pd, vi))]
    ELSE parsed

\* let vertex_index_count = data.read_i32(); for _ in 0..vertex_index_count
\* { .. }; parsed.occluders.push(Occluder { .. }) }
ReadVertexIndicies ==
    /\ pc = "vertex_indicies"
    /\ CountedDone(ReadCounted(data, <<"i32">>), "occluding")
    /\ parsed' = PushedOccluder(ReadCounted(data, <<"i32">>))
    /\ UNCHANGED ret

\* the loop condition is false
OcclusionExit ==
    /\ pc = "occluding"
    /\ ~(get_pos(data) < get_len(data))
    /\ pc' = "occluded"
    /\ UNCHANGED <<full_data, lumps, i, parsed, data, ret>>

NextOcclusion ==
    \/ ReadOccluderData
    \/ ReadPolyData
    \/ ReadVertexIndicies
    \/ OcclusionExit

\* the loop moves on: every step of NextOcclusion changes pc, and the guards
\* test nothing but pc and the loop condition, so that a step is possible
\* exactly while pc is not final
LoopAdvances ==
    /\ pc \in {"occluding", "poly_data", "vertex_indicies"}
    /\ pc' \in {"occluding", "poly_data", "vertex_indicies", "occluded", "panicked"}

\* the code runs on by itself: a loop that can move on does
SpecOcclusion == InitOcclusion /\ [][NextOcclusion]_vars /\ WF_pc(LoopAdvances)

\* the passes entered so far
PassesEntered ==
    Len(parsed.occluders)
        + (IF pc \in {"poly_data", "vertex_indicies", "panicked"} THEN 1 ELSE 0)

\* C19: the Occlusion loop ends for every region, whatever its counts are.
\* Every read step moves the cursor on, a completed pass by at least the 12
\* bytes of its three counts; at most ceil(length / 12) passes are entered;
\* the loop ends, with position >= length or with a failed read, and then
\* holds what the arm as a whole produces.
C19_OcclusionTerminates ==
    /\ [][/\ pc' # "occluded" => get_pos(data') > get_pos(data)
          /\ (pc = "vertex_indicies" /\ pc' = "occluding") =>
                get_pos(data') >= ret.val.start + 12]_vars
    /\ [](/\ PassesEntered * 12 <= get_len(data) + 11
          /\ pc = "occluded" =>
                /\ get_pos(data) >= get_len(data)
                /\ parsed.occluders = OcclusionArm(LumpReader_new(get_data(data)), <<>>).recs
          /\ pc = "panicked" => ~OcclusionArm(LumpReader_new(get_data(data)), <<>>).ok)
    /\ <>(pc \in {"occluded", "panicked"})

\* the loop ended after three passes over groups whose counts are all
\* negative, each pass reading nothing but its three counts
C19_Witness ==
    /\ pc = "occluded"
    /\ Len(parsed.occluders) = 3
    /\ get_pos(data) = 36
    /\ \A j \in 1..3 :
          /\ parsed.occluders[j].count < 0
          /\ parsed.occluders[j].occluder_data = <<>>
          /\ parsed.occluders[j].vertex_index_count < 0

====
